---------------------------- MODULE Spec2Model ----------------------------
(***************************************************************************)
(* The raw-HTTP to-do server (src/unnamed/part_000): the in-memory session *)
(* registry, the cookie/auth gate, the router and the CRUD handlers over   *)
(* the items table (src/unnamed/part_002), together with the Telegram bot  *)
(* (src/bot.js) that writes to the same table.                             *)
(*                                                                         *)
(* A handler is an async function: it runs without interruption up to its  *)
(* next await.  Each action below is one such run: the arrival of a        *)
(* request up to the first await (or to the end of the handler), and one   *)
(* continuation per await (createConnection, readBody, execute, end).      *)
(* A statement's effect on the table is taken at the continuation of its   *)
(* execute.                                                                *)
(***************************************************************************)
EXTENDS Integers, Sequences, FiniteSets, TLC

\* ------------------------------------------------------------- bounds
MaxReq    == 2    \* handlers suspended at an await at the same time
MaxTokens == 2    \* session ids genSid can still hand out
MaxId     == 2    \* rows the table's AUTO_INCREMENT counter can hand out
MaxTime   == 1    \* ticks of the clock read by Date.now()
MaxConns  == 2    \* connections the store accepts at the same time

\* ------------------------------------------------------------ values
\* JavaScript's undefined for a string-valued field, and for an id.
Undefined == "undefined"
NoId      == -1
\* No session: the null that getAuth returns, as a token number.
NoTok     == 0

Tokens  == 1 .. MaxTokens
\* A sid value a client can send: an issued token or a forged one.
SidVals == 1 .. (MaxTokens + 1)

\* A text is a sequence of characters; " " is the whitespace character.
SP == " "
TextInputs ==
    { <<>>, <<SP>>, <<SP, "a", SP>>, <<"b">> }

\* A JSON value of the text field: absent, a string, or a number.
JUndef  == [t |-> "undef", s |-> <<>>]
JNum    == [t |-> "num",   s |-> <<>>]
JStr(s) == [t |-> "str",   s |-> s]
TextVals == {JUndef, JNum} \cup { JStr(s) : s \in TextInputs }
IdVals   == {NoId} \cup (1 .. MaxId)

\* A parsed JSON request body: what JSON.parse threw ("malformed") or
\* returned: null, a number, string or boolean ("scalar", whose properties
\* id and text are undefined), or an object.
Bodies ==
    [ parse : {"malformed", "null", "scalar"}, id : {NoId}, text : {JUndef} ]
    \cup [ parse : {"object"}, id : IdVals, text : TextVals ]

\* A form-encoded login body after qs.parse: each field a string or absent.
FormVals == {Undefined, "admin", "secret", "guess"}

\* A Cookie header: absent (<<>>) or a sequence of pairs k=v; bad marks a
\* value holding a percent-escape that decodeURIComponent rejects.
Pair(k, v, bad) == [k |-> k, v |-> v, bad |-> bad]
CookieHeaders ==
    { <<>> }
    \cup { <<Pair("sid", v, FALSE)>> : v \in SidVals }
    \cup { <<Pair("theme", 1, FALSE)>>, <<Pair("theme", 1, TRUE)>> }
    \cup { <<Pair("sid", v, FALSE), Pair("theme", 1, TRUE)>> : v \in Tokens }
    \cup { <<Pair("sid", 1, TRUE)>> }

Methods == {"GET", "POST", "PUT"}

\* A pathname as its segments: "/" is <<>>, "/api/items" is <<"api","items">>.
Paths ==
    { <<>>, <<"login.html">>, <<"style.css">>, <<"login">>, <<"logout">>,
      <<"api">>, <<"api", "items">>, <<"api", "add">>, <<"api", "delete">>,
      <<"api", "edit">>, <<"api", "nope">> }

\* __dirname, the files under it and a file of the host outside it.
DocRoot == <<"app">>
Files   == { <<"app", "index.html">>, <<"app", "login.html">>, <<"etc", "passwd">> }


VARIABLES
    adminUser,  \* ADMIN_USER, read from the environment at start
    adminPass,  \* ADMIN_PASS
    sessions,   \* the Map sid -> {username, created}
    now,        \* the clock behind Date.now()
    items,      \* the items table: id -> text
    nextId,     \* the table's AUTO_INCREMENT counter
    conns,      \* store connections this process holds open
    slots,      \* the handlers suspended at an await
    last,       \* what the step just taken answered, and to which request
    spent,      \* history: every sid genSid has returned
    issued,     \* history: sids issued by a login since the process started
    revoked,    \* history: sids a handled logout carried since they were issued
    returned,   \* history: ids answered by POST /api/add
    removed,    \* history: ids for which POST /api/delete answered 200
    dropped,    \* history: those of them the counter had passed by then
    kept        \* history: id -> text sent to the add that answered id, while
                \* no statement has edited or deleted id since

vars == << adminUser, adminPass, sessions, now, items, nextId, conns, slots,
           last, spent, issued, revoked, returned, removed, dropped, kept >>

\* ------------------------------------------------------ finite maps
EmptyMap     == [k \in {} |-> TRUE]
Put(f, k, v) == [x \in (DOMAIN f) \cup {k} |-> IF x = k THEN v ELSE f[x]]
Del(f, k)    == [x \in (DOMAIN f) \ {k} |-> f[x]]

\* ------------------------------------------------------------ cookies
\* decodeURIComponent(v) throws URIError on some pair of the header.
CookiesThrow(h) == \E i \in 1 .. Len(h) : h[i].bad

\* cookies.sid after the forEach: the last pair named sid, NoTok if none.
RECURSIVE SidFrom(_, _, _)
SidFrom(h, i, acc) ==
    IF i > Len(h) THEN acc
    ELSE SidFrom(h, i + 1, IF h[i].k = "sid" THEN h[i].v ELSE acc)

parseCookies(h) == SidFrom(h, 1, NoTok)

\* getAuth as it would be with sessions that expire with their age.
getAuth_expiring(h, sess) ==
    LET sid == parseCookies(h)
    IN  IF sid = NoTok \/ sid \notin DOMAIN sess THEN NoTok
        ELSE IF now - sess[sid].created >= MaxTime THEN NoTok ELSE sid

\* The session the request carries, named by its key; NoTok for null.
getAuth(h, sess) ==
    LET sid == parseCookies(h)
    IN  IF sid = NoTok THEN NoTok
        ELSE IF sid \in DOMAIN sess THEN sid ELSE NoTok

\* ---------------------------------------------------------------- text
RECURSIVE TrimLeft(_)
TrimLeft(s) ==
    IF s # <<>> /\ Head(s) = SP THEN TrimLeft(Tail(s)) ELSE s

RECURSIVE TrimRight(_)
TrimRight(s) ==
    IF s # <<>> /\ s[Len(s)] = SP THEN TrimRight(SubSeq(s, 1, Len(s) - 1)) ELSE s

\* text stored as sent, the .trim() forgotten.
Trim_none(s) == s

Trim(s) == TrimRight(TrimLeft(s))

\* The test !text || !text.trim(): "empty", "ok", or "throw" when text is
\* truthy and has no trim method.
TextCheck(v) ==
    CASE v.t = "undef" -> "empty"
      [] v.t = "num"   -> "throw"
      [] OTHER         -> IF v.s = <<>> \/ Trim(v.s) = <<>> THEN "empty" ELSE "ok"

\* --------------------------------------------------------------- paths
StartsWithApi(p) == Len(p) >= 2 /\ p[1] = "api"

\* path.join: "." and "" segments dropped, ".." pops one segment.
RECURSIVE Normalize(_, _)
Normalize(acc, rest) ==
    IF rest = <<>> THEN acc
    ELSE LET x == Head(rest)
         IN  CASE x = "" \/ x = "." -> Normalize(acc, Tail(rest))
               [] x = ".." ->
                    Normalize(IF acc = <<>> THEN acc
                              ELSE SubSeq(acc, 1, Len(acc) - 1), Tail(rest))
               [] OTHER -> Normalize(Append(acc, x), Tail(rest))

PathJoin(dir, p) == Normalize(<<>>, dir \o p)

\* The first branch of the handler: a GET that is neither API nor /login,
\* /logout.
IsStaticRoute(m, p) ==
    m = "GET" /\ ~StartsWithApi(p) /\ p \notin { <<"login">>, <<"logout">> }

\* The root path served without looking at the session.
StaticFile_open(p, user) ==
    CASE p = <<>>             -> PathJoin(DocRoot, <<"index.html">>)
      [] p = <<"login.html">> -> PathJoin(DocRoot, <<"login.html">>)
      [] OTHER                -> PathJoin(DocRoot, p)

\* The file a static GET serves, <<>> when the caller is redirected.
StaticFile(p, user) ==
    CASE p = <<>>             -> IF user = NoTok THEN <<>>
                                 ELSE PathJoin(DocRoot, <<"index.html">>)
      [] p = <<"login.html">> -> PathJoin(DocRoot, <<"login.html">>)
      [] OTHER                -> PathJoin(DocRoot, p)

\* ----------------------------------------------------------- responses
NoCookie == [name |-> "", value |-> NoTok, httpOnly |-> FALSE, path |-> "",
             maxAge |-> 0, sameSite |-> ""]

NoResp == [code |-> 0, error |-> "", loc |-> "", cookie |-> NoCookie,
           file |-> <<>>, id |-> NoId, success |-> FALSE, rows |-> {}]

\* sendJson(res, code, {error: msg})
JsonError(code, msg) == [NoResp EXCEPT !.code = code, !.error = msg]

\* res.writeHead(302, {Location}) with the Set-Cookie header set before it.
Redirect(loc, cookie) == [NoResp EXCEPT !.code = 302, !.loc = loc, !.cookie = cookie]

\* sendFile: 200 with the file, 404 JSON when readFile fails.
sendFile(f) ==
    IF f \in Files THEN [NoResp EXCEPT !.code = 200, !.file = f]
    ELSE JsonError(404, "Not found")

\* The Set-Cookie value written by createSession.
SessionCookie(sid) ==
    [name |-> "sid", value |-> sid, httpOnly |-> TRUE, path |-> "/",
     maxAge |-> 86400, sameSite |-> "Lax"]

\* The Set-Cookie value written by destroySession.
ClearCookie ==
    [name |-> "sid", value |-> NoTok, httpOnly |-> FALSE, path |-> "/",
     maxAge |-> 0, sameSite |-> "Lax"]

\* ------------------------------------------------------------ sessions
\* A registry that holds one session: the new one replaces the others.
createSession_single(sess, sid, username, t) ==
    Put(EmptyMap, sid, [username |-> username, created |-> t])

\* A session that records no identity.
createSession_anonymous(sess, sid, username, t) ==
    Put(sess, sid, [username |-> "", created |-> t])

\* sessions.set(sid, {username, created: Date.now()})
createSession(sess, sid, username, t) ==
    Put(sess, sid, [username |-> username, created |-> t])

\* A logout that empties the registry.
destroySession_all(sess, h) ==
    IF parseCookies(h) # NoTok THEN EmptyMap ELSE sess

\* if (sid) sessions.delete(sid)
destroySession(sess, h) ==
    LET sid == parseCookies(h)
    IN  IF sid # NoTok THEN Del(sess, sid) ELSE sess

\* username === ADMIN_USER && password === ADMIN_PASS
LoginOk(u, pw, cu, cp) == u = cu /\ pw = cp

\* The gate put on the four routes of the table only.
ApiGate_knownRoutes(user, p) ==
    user = NoTok /\ p \in { <<"api", "items">>, <<"api", "add">>,
                            <<"api", "delete">>, <<"api", "edit">> }

\* if (!user && pathname.startsWith('/api/'))
ApiGate(user, p) == user = NoTok /\ StartsWithApi(p)

\* The handler's if-chain up to the store connection, in its order.
Route(m, p, user) ==
    IF IsStaticRoute(m, p) THEN "static"
    ELSE IF m = "POST" /\ p = <<"login">> THEN "login"
    ELSE IF m = "GET" /\ p = <<"logout">> THEN "logout"
    ELSE IF ApiGate(user, p) THEN "unauthorized"
    ELSE IF StartsWithApi(p) THEN "api"
    ELSE "none"

\* The if-chain inside the try block.
ApiRoute(m, p) ==
    IF m = "GET" /\ p = <<"api", "items">> THEN "items"
    ELSE IF m = "POST" /\ p = <<"api", "add">> THEN "add"
    ELSE IF m = "POST" /\ p = <<"api", "delete">> THEN "delete"
    ELSE IF m = "POST" /\ p = <<"api", "edit">> THEN "edit"
    ELSE "notfound"

\* --------------------------------------------------------------- store
\* SELECT id, text FROM items
Select(tbl) == { [id |-> i, text |-> tbl[i]] : i \in DOMAIN tbl }

\* INSERT INTO items (text) VALUES (?): the row takes the counter's value.
Insert(tbl, id, text) == Put(tbl, id, text)

\* A counter that does not advance.
AutoIncrement_stuck(n) == n

\* The counter after an INSERT: AUTO_INCREMENT never hands a value out twice.
AutoIncrement(n) == n + 1

\* The UPDATE without its WHERE.
Update_all(tbl, id, text) ==
    IF id \in DOMAIN tbl THEN [i \in DOMAIN tbl |-> text] ELSE tbl

\* An UPDATE that writes the row whether it is there or not.
Update_upsert(tbl, id, text) == Put(tbl, id, text)

\* UPDATE items SET text = ? WHERE id = ?
Update(tbl, id, text) ==
    IF id \in DOMAIN tbl THEN [tbl EXCEPT ![id] = text] ELSE tbl

\* result.affectedRows of the UPDATE: the rows its WHERE matched.
AffectedRows(tbl, id) == IF id \in DOMAIN tbl THEN 1 ELSE 0

\* The DELETE without its WHERE.
Delete_all(tbl, id) == EmptyMap

\* DELETE FROM items WHERE id = ?
Delete(tbl, id) == Del(tbl, id)

\* A connect that is tried again and leaves two connections open.
createConnection_retry(c) == c + 2

\* mysql.createConnection resolved, conn.end() resolved.
createConnection(c) == c + 1
connEnd(c)          == c - 1

\* A handler with no finally: it is over once it has answered.
Finally_none(conn) == "idle"

\* finally { if (conn) await conn.end() }: where the handler goes next.
Finally(conn) == IF conn THEN "closing" ELSE "idle"

\* ------------------------------------------------------------ handlers
Slot == 1 .. MaxReq

NoBody == [parse |-> "none", id |-> NoId, text |-> JUndef]
NoForm == [u |-> Undefined, pw |-> Undefined]

\* A handler: where it is suspended, the request's method and pathname, the
\* sid it carried, getAuth's result (user), the handler's local conn, the id
\* and text read from the body, the statements executed and the status
\* code answered.  live and valid are history: whether sid was a key of the
\* registry, and whether it was issued and not logged out, when the handler
\* started.  blank tells of the body the client is sending: whether its
\* text is missing, empty or all whitespace.
IdleSlot == [pc |-> "idle", method |-> "", path |-> <<>>, sid |-> NoTok,
             live |-> FALSE, valid |-> FALSE, user |-> NoTok, conn |-> FALSE,
             blank |-> FALSE, id |-> NoId, text |-> <<>>, stmts |-> 0,
             code |-> 0]

\* The observation of one step: the request (r, with body and form as far
\* as they were read), the response, and the store calls made for it.
Ev(ev, r, body, form, resp) ==
    [ev |-> ev, method |-> r.method, path |-> r.path, sid |-> r.sid,
     live |-> r.live, valid |-> r.valid, user |-> r.user,
     blank |-> r.blank, body |-> body, form |-> form, resp |-> resp,
     opened |-> IF r.conn THEN 1 ELSE 0, stmts |-> r.stmts]

NoEvent == Ev("none", IdleSlot, NoBody, NoForm, NoResp)

\* last holds the observation of the step just taken and of no earlier one:
\* it is dropped (Observed) before the next step.
Ready == last.ev = "none"

Busy == Cardinality({ s \in Slot : slots[s].pc # "idle" })

FreeSlot == CHOOSE s \in Slot :
                /\ slots[s].pc = "idle"
                /\ \A t \in Slot : slots[t].pc = "idle" => s <= t

\* A request can start: fewer than cap handlers are suspended.
Accepting(cap) == Ready /\ Busy < cap /\ Busy < MaxReq

\* The methods of the requests that can start, and the handlers suspended
\* at pc whose await can settle.
Arriving(cap) == IF Accepting(cap) THEN Methods ELSE {}
At(pc)        == IF Ready THEN { s \in Slot : slots[s].pc = pc } ELSE {}

\* The request as the handler sees it after its first three lines.
Req(m, p, h) ==
    LET sid == parseCookies(h)
    IN  [IdleSlot EXCEPT !.method = m, !.path = p, !.sid = sid,
                         !.live = (sid \in DOMAIN sessions),
                         !.valid = (sid \in issued \ revoked),
                         !.user = getAuth(h, sessions)]

cfg   == << adminUser, adminPass >>
auth  == << sessions, spent, issued, revoked >>
store == << items, nextId >>
hist  == << returned, removed, dropped, kept >>

\* The process ends and is started again: every handler and connection goes
\* with it and the registry is a new, empty Map.
Reboot ==
    /\ sessions' = EmptyMap
    /\ issued' = {}
    /\ revoked' = {}
    /\ slots' = [s \in Slot |-> IdleSlot]
    /\ conns' = 0
    /\ UNCHANGED << cfg, now, store, hist, spent >>

Restart ==
    /\ Ready
    /\ Reboot
    /\ last' = [NoEvent EXCEPT !.ev = "restart"]

\* getAuth throws out of the async handler: nothing catches the rejection,
\* no response is written and the process exits.
CookieThrows(cap, m, p, h) ==
    /\ Accepting(cap)
    /\ CookiesThrow(h)
    /\ Reboot
    /\ last' = Ev("crash", [IdleSlot EXCEPT !.method = m, !.path = p],
                  NoBody, NoForm, NoResp)

\* A handler that answers without suspending and touches no state.
Answer(r, resp) ==
    /\ last' = Ev("resp", r, NoBody, NoForm, resp)
    /\ UNCHANGED << cfg, auth, now, store, hist, conns, slots >>

StaticGet(cap, m, p, h) ==
    /\ Accepting(cap)
    /\ ~CookiesThrow(h)
    /\ LET r == Req(m, p, h)
           f == StaticFile(p, r.user)
       IN  /\ Route(m, p, r.user) = "static"
           /\ Answer(r, IF f = <<>> THEN Redirect("/login.html", NoCookie)
                        ELSE sendFile(f))

Unauthorized(cap, m, p, h) ==
    /\ Accepting(cap)
    /\ ~CookiesThrow(h)
    /\ LET r == Req(m, p, h)
       IN  /\ Route(m, p, r.user) = "unauthorized"
           /\ Answer(r, JsonError(401, "Unauthorized"))

\* conn stays undefined, no route of the try block matches: 404.
NoRoute(cap, m, p, h) ==
    /\ Accepting(cap)
    /\ ~CookiesThrow(h)
    /\ LET r == Req(m, p, h)
       IN  /\ Route(m, p, r.user) = "none"
           /\ Answer(r, JsonError(404, "Not found"))

Logout(cap, m, p, h) ==
    /\ Accepting(cap)
    /\ ~CookiesThrow(h)
    /\ LET r == Req(m, p, h)
       IN  /\ Route(m, p, r.user) = "logout"
           /\ sessions' = destroySession(sessions, h)
           /\ revoked' = IF r.sid \in issued THEN revoked \cup {r.sid} ELSE revoked
           /\ last' = Ev("resp", r, NoBody, NoForm, Redirect("/login.html", ClearCookie))
    /\ UNCHANGED << cfg, spent, issued, now, store, hist, conns, slots >>

\* Suspend the handler in the free slot.
Suspend(r, pc) ==
    /\ slots' = [slots EXCEPT ![FreeSlot] = [r EXCEPT !.pc = pc]]
    /\ last' = NoEvent

\* POST /login: await readBody(req).
LoginStart(cap, m, p, h) ==
    /\ Accepting(cap)
    /\ ~CookiesThrow(h)
    /\ LET r == Req(m, p, h)
       IN  /\ Route(m, p, r.user) = "login"
           /\ Suspend(r, "login")
    /\ UNCHANGED << cfg, auth, now, store, hist, conns >>

\* An /api/ request past the gate: await mysql.createConnection(dbConfig).
ApiStart(cap, m, p, h) ==
    /\ Accepting(cap)
    /\ ~CookiesThrow(h)
    /\ LET r == Req(m, p, h)
       IN  /\ Route(m, p, r.user) = "api"
           /\ \E blank \in BOOLEAN :
                 /\ blank => ApiRoute(m, p) \in {"add", "edit"}
                 /\ Suspend([r EXCEPT !.blank = blank], "connecting")
    /\ UNCHANGED << cfg, auth, now, store, hist, conns >>

\* crypto.randomBytes(16): a value never returned before (128 random bits;
\* a repeat is not modelled).
genSid == Tokens \ spent

\* POST /login after readBody: qs.parse gave username u and password pw.
LoginBody(s, u, pw) ==
    /\ Ready
    /\ slots[s].pc = "login"
    /\ LET r    == slots[s]
           form == [u |-> u, pw |-> pw]
       IN  IF LoginOk(u, pw, adminUser, adminPass)
           THEN \E sid \in genSid :
                  /\ sessions' = createSession(sessions, sid, adminUser, now)
                  /\ spent' = spent \cup {sid}
                  /\ issued' = issued \cup {sid}
                  /\ revoked' = revoked \ {sid}
                  /\ last' = Ev("resp", r, NoBody, form,
                                Redirect("/", SessionCookie(sid)))
           ELSE /\ last' = Ev("resp", r, NoBody, form,
                              Redirect("/login.html?error=1", NoCookie))
                /\ UNCHANGED auth
    /\ slots' = [slots EXCEPT ![s] = IdleSlot]
    /\ UNCHANGED << cfg, now, store, hist, conns >>

\* Answer from inside the try block (or its catch), then the finally.
Reply(s, r, body, resp) ==
    /\ last' = Ev("resp", r, body, NoForm, resp)
    /\ slots' = [slots EXCEPT ![s] =
                    IF Finally(r.conn) = "idle" THEN IdleSlot
                    ELSE [IdleSlot EXCEPT !.pc = Finally(r.conn), !.conn = r.conn,
                                          !.code = resp.code]]

\* createConnection settled: rejected (500, return) or resolved, and then
\* the handler runs to its next await.
Connected(s, ok) ==
    /\ Ready
    /\ slots[s].pc = "connecting"
    /\ LET r0 == slots[s]
           r  == [r0 EXCEPT !.conn = TRUE]
           rt == ApiRoute(r0.method, r0.path)
       IN  IF ~ok
           THEN /\ last' = Ev("resp", r0, NoBody, NoForm,
                              JsonError(500, "DB connection error"))
                /\ slots' = [slots EXCEPT ![s] = IdleSlot]
                /\ UNCHANGED conns
           ELSE /\ conns' = createConnection(conns)
                /\ CASE rt = "items" ->
                          /\ slots' = [slots EXCEPT ![s] = [r EXCEPT !.pc = "executing"]]
                          /\ last' = NoEvent
                     [] rt \in {"add", "delete", "edit"} ->
                          /\ slots' = [slots EXCEPT ![s] = [r EXCEPT !.pc = "reading"]]
                          /\ last' = NoEvent
                     [] OTHER ->
                          Reply(s, r, NoBody, JsonError(404, "Not found"))
    /\ UNCHANGED << cfg, auth, now, store, hist >>

\* A handler that answers an unparsable body as it answers an empty text.
BodyCheck_structured(rt, b) ==
    IF b.parse \in {"malformed", "null"} THEN "empty"
    ELSE IF rt \in {"add", "edit"} /\ TextCheck(b.text) # "ok" THEN TextCheck(b.text)
    ELSE IF rt \in {"delete", "edit"} /\ b.id = NoId THEN "throw"
    ELSE "run"

\* What the handler does with the body it read, before any execute:
\* "throw" (JSON.parse, the destructuring of null, text.trim, or an
\* undefined bind parameter), "empty" (400) or "run".
BodyCheck(rt, b) ==
    IF b.parse \in {"malformed", "null"} THEN "throw"
    ELSE IF rt \in {"add", "edit"} /\ TextCheck(b.text) # "ok" THEN TextCheck(b.text)
    ELSE IF rt \in {"delete", "edit"} /\ b.id = NoId THEN "throw"
    ELSE "run"

\* The text of body b is missing, empty or all whitespace.
Blank(b) ==
    /\ b.parse \in {"object", "scalar"}
    /\ \/ b.text.t = "undef"
       \/ b.text.t = "str" /\ \A i \in 1 .. Len(b.text.s) : b.text.s[i] = SP

\* readBody resolved with body b.
BodyRead(s, b) ==
    /\ Ready
    /\ slots[s].pc = "reading"
    /\ slots[s].blank = (ApiRoute(slots[s].method, slots[s].path) \in {"add", "edit"}
                          /\ Blank(b))
    /\ LET r  == slots[s]
           rt == ApiRoute(r.method, r.path)
           c  == BodyCheck(rt, b)
       IN  CASE c = "throw" -> Reply(s, r, b, JsonError(500, "Server error"))
             [] c = "empty" -> Reply(s, r, b, JsonError(400, "Empty text"))
             [] OTHER ->
                  /\ slots' = [slots EXCEPT ![s] =
                        [r EXCEPT !.pc = "executing",
                                  !.id = IF rt = "add" THEN NoId ELSE b.id,
                                  !.text = IF rt = "delete" THEN <<>>
                                           ELSE b.text.s]]
                  /\ last' = NoEvent
    /\ UNCHANGED << cfg, auth, now, store, hist, conns >>

\* The body of the request whose statement is pending, for the observation.
SentBody(r) ==
    [parse |-> IF ApiRoute(r.method, r.path) = "items" THEN "none" ELSE "object",
     id |-> r.id,
     text |-> IF ApiRoute(r.method, r.path) \in {"add", "edit"}
              THEN JStr(r.text) ELSE JUndef]

\* conn.execute settled: rejected (catch: 500) or resolved with the
\* statement applied to the table.
Executed(s, ok) ==
    /\ Ready
    /\ slots[s].pc = "executing"
    /\ LET r0 == slots[s]
           r  == [r0 EXCEPT !.stmts = r0.stmts + 1]
           rt == ApiRoute(r0.method, r0.path)
           b  == SentBody(r0)
       IN  IF ~ok
           THEN /\ Reply(s, r0, b, JsonError(500, "Server error"))
                /\ UNCHANGED << store, hist >>
           ELSE CASE rt = "items" ->
                       /\ Reply(s, r, b, [NoResp EXCEPT !.code = 200,
                                                       !.rows = Select(items)])
                       /\ UNCHANGED << store, hist >>
                  [] rt = "add" ->
                       /\ nextId <= MaxId
                       /\ items' = Insert(items, nextId, Trim(r.text))
                       /\ nextId' = AutoIncrement(nextId)
                       /\ returned' = returned \cup {nextId}
                       /\ kept' = Put(kept, nextId, r.text)
                       /\ UNCHANGED << removed, dropped >>
                       /\ Reply(s, r, b, [NoResp EXCEPT !.code = 200, !.id = nextId])
                  [] rt = "delete" ->
                       /\ items' = Delete(items, r.id)
                       /\ removed' = removed \cup {r.id}
                       /\ dropped' = IF r.id < nextId THEN dropped \cup {r.id}
                                                        ELSE dropped
                       /\ kept' = Del(kept, r.id)
                       /\ UNCHANGED << nextId, returned >>
                       /\ Reply(s, r, b, [NoResp EXCEPT !.code = 200, !.success = TRUE])
                  [] OTHER ->
                       /\ items' = Update(items, r.id, Trim(r.text))
                       /\ kept' = Del(kept, r.id)
                       /\ UNCHANGED << nextId, returned, removed, dropped >>
                       /\ Reply(s, r, b,
                                IF AffectedRows(items, r.id) = 0
                                THEN JsonError(404, "Not found")
                                ELSE [NoResp EXCEPT !.code = 200, !.success = TRUE])
    /\ UNCHANGED << cfg, auth, now, conns >>

\* conn.end() resolved: the handler is over.
Closed(s) ==
    /\ Ready
    /\ slots[s].pc = "closing"
    /\ conns' = connEnd(conns)
    /\ slots' = [slots EXCEPT ![s] = IdleSlot]
    /\ last' = Ev("closed", slots[s], NoBody, NoForm,
                  [NoResp EXCEPT !.code = slots[s].code])
    /\ UNCHANGED << cfg, auth, now, store, hist >>

\* Time passes.
Tick ==
    /\ Ready
    /\ now < MaxTime
    /\ now' = now + 1
    /\ last' = NoEvent
    /\ UNCHANGED << cfg, auth, store, hist, conns, slots >>

\* The observation is dropped; the program's state is as the step left it.
Observed ==
    /\ ~Ready
    /\ last' = NoEvent
    /\ UNCHANGED << cfg, auth, now, store, hist, conns, slots >>

\* ----------------------------------------------------------------- bot
\* /add <text>: the text trimmed, refused when empty, else one INSERT.
BotAdd(t) ==
    /\ Ready
    /\ Trim(t) # <<>>
    /\ nextId <= MaxId
    /\ items' = Insert(items, nextId, Trim(t))
    /\ nextId' = AutoIncrement(nextId)
    /\ last' = NoEvent
    /\ UNCHANGED << cfg, auth, now, hist, conns, slots >>

\* /edit <id> <text>: one UPDATE.
BotEdit(id, t) ==
    /\ Ready
    /\ Trim(t) # <<>>
    /\ items' = Update(items, id, Trim(t))
    /\ kept' = Del(kept, id)
    /\ last' = NoEvent
    /\ UNCHANGED << cfg, auth, now, nextId, returned, removed, dropped, conns, slots >>

\* /delete <id>: one DELETE.
BotDelete(id) ==
    /\ Ready
    /\ items' = Delete(items, id)
    /\ kept' = Del(kept, id)
    /\ last' = NoEvent
    /\ UNCHANGED << cfg, auth, now, nextId, returned, removed, dropped, conns, slots >>

\* ------------------------------------------------------ specifications
Init ==
    /\ adminUser \in {Undefined, "admin"}
    /\ adminPass \in {Undefined, "secret"}
    /\ sessions = EmptyMap
    /\ now = 0
    /\ items = EmptyMap
    /\ nextId = 1
    /\ conns = 0
    /\ slots = [s \in Slot |-> IdleSlot]
    /\ last = NoEvent
    /\ spent = {}
    /\ issued = {}
    /\ revoked = {}
    /\ returned = {}
    /\ removed = {}
    /\ dropped = {}
    /\ kept = EmptyMap

BotIds   == 1 .. MaxId
\* What follows the command word: the regular expression wants a character.
BotTexts == { <<SP>>, <<SP, "a", SP>>, <<"b">> }

\* Every request, body and interleaving.
Next ==
    \/ \E m \in Arriving(MaxReq), p \in Paths, h \in CookieHeaders :
          \/ CookieThrows(MaxReq, m, p, h)
          \/ StaticGet(MaxReq, m, p, h)
          \/ LoginStart(MaxReq, m, p, h)
          \/ Logout(MaxReq, m, p, h)
          \/ Unauthorized(MaxReq, m, p, h)
          \/ ApiStart(MaxReq, m, p, h)
          \/ NoRoute(MaxReq, m, p, h)
    \/ \E s \in At("login"), u \in FormVals, pw \in FormVals : LoginBody(s, u, pw)
    \/ \E s \in At("connecting"), ok \in BOOLEAN : Connected(s, ok)
    \/ \E s \in At("reading"), b \in Bodies : BodyRead(s, b)
    \/ \E s \in At("executing"), ok \in BOOLEAN : Executed(s, ok)
    \/ \E s \in At("closing") : Closed(s)
    \/ \E t \in BotTexts : BotAdd(t)
    \/ \E id \in BotIds, t \in BotTexts : BotEdit(id, t)
    \/ \E id \in BotIds : BotDelete(id)
    \/ Tick
    \/ Restart
    \/ Observed

Spec == Init /\ [][Next]_vars

\* The session side: every method on the page, login, logout and API paths
\* with every Cookie header, every login form, restart and the clock, one
\* handler at a time; the bot is silent and API bodies are the ones that
\* leave the table alone.
AuthBodies == { b \in Bodies : b.parse # "object" \/ TextCheck(b.text) = "empty" }

AuthPaths == { <<>>, <<"login.html">>, <<"login">>, <<"logout">>,
               <<"api", "items">>, <<"api", "add">>, <<"api", "nope">> }

NextAuth ==
    \/ \E m \in Arriving(1), p \in AuthPaths, h \in CookieHeaders :
          \/ CookieThrows(1, m, p, h)
          \/ StaticGet(1, m, p, h)
          \/ LoginStart(1, m, p, h)
          \/ Logout(1, m, p, h)
          \/ Unauthorized(1, m, p, h)
          \/ ApiStart(1, m, p, h)
          \/ NoRoute(1, m, p, h)
    \/ \E s \in At("login"), u \in FormVals, pw \in FormVals : LoginBody(s, u, pw)
    \/ \E s \in At("connecting"), ok \in BOOLEAN : Connected(s, ok)
    \/ \E s \in At("reading"), b \in AuthBodies : BodyRead(s, b)
    \/ \E s \in At("executing"), ok \in BOOLEAN : Executed(s, ok)
    \/ \E s \in At("closing") : Closed(s)
    \/ Tick
    \/ Restart
    \/ Observed

InitAuth == Init /\ (adminUser = Undefined <=> adminPass = Undefined)

SpecAuth == InitAuth /\ [][NextAuth]_vars

\* The store side: the admin pair configured and one login, every method on
\* the API paths with no cookie, an issued sid or a forged one, every body,
\* and the bot writing in between; one handler at a time, no restart.
StorePaths   == { p \in Paths : StartsWithApi(p) } \cup { <<"login">> }
StoreHeaders == { h \in CookieHeaders : Len(h) <= 1 /\ ~CookiesThrow(h)
                                        /\ parseCookies(h) \in {NoTok, 1, MaxTokens + 1} }
StoreForms   == { "secret", "guess" }

InitStore == Init /\ adminUser = "admin" /\ adminPass = "secret"

NextStore ==
    \/ \E m \in Arriving(1), p \in StorePaths, h \in StoreHeaders :
          \/ sessions = EmptyMap /\ LoginStart(1, m, p, h)
          \/ Unauthorized(1, m, p, h)
          \/ ApiStart(1, m, p, h)
          \/ NoRoute(1, m, p, h)
    \/ \E s \in At("login"), pw \in StoreForms : LoginBody(s, "admin", pw)
    \/ \E s \in At("connecting"), ok \in BOOLEAN : Connected(s, ok)
    \/ \E s \in At("reading"), b \in Bodies : BodyRead(s, b)
    \/ \E s \in At("executing"), ok \in BOOLEAN : Executed(s, ok)
    \/ \E s \in At("closing") : Closed(s)
    \/ \E t \in BotTexts : BotAdd(t)
    \/ \E id \in BotIds, t \in BotTexts : BotEdit(id, t)
    \/ \E id \in BotIds : BotDelete(id)
    \/ Observed

SpecStore == InitStore /\ [][NextStore]_vars

\* The page side: every method on the paths that are not API paths, written
\* as url.parse leaves them (dot segments kept), with every decodable Cookie
\* header; logins and logouts in between, one handler at a time.
StaticPaths ==
    { <<>>, <<"index.html">>, <<"login.html">>, <<"style.css">>,
      <<".", "index.html">>, <<"css", "..", "index.html">>,
      <<"..", "app", "index.html">>, <<"..", "etc", "passwd">>,
      <<"..", "..", "etc", "passwd">>, <<"api">>, <<"login">>, <<"logout">> }
StaticHeaders == { h \in CookieHeaders : ~CookiesThrow(h) }

NextStatic ==
    \/ \E m \in Arriving(1), p \in StaticPaths, h \in StaticHeaders :
          \/ StaticGet(1, m, p, h)
          \/ LoginStart(1, m, p, h)
          \/ Logout(1, m, p, h)
          \/ NoRoute(1, m, p, h)
    \/ \E s \in At("login"), pw \in StoreForms : LoginBody(s, "admin", pw)
    \/ Observed

SpecStatic == InitStore /\ [][NextStatic]_vars

\* The race: one login, the bot filling the table, and up to two handlers
\* of POST /api/edit and POST /api/delete suspended at the same time, their
\* awaits settling in every order.
RacePaths   == { <<"login">>, <<"api", "edit">>, <<"api", "delete">> }
RaceHeaders == { h \in StoreHeaders : parseCookies(h) \in Tokens }
RaceBodies  == { b \in Bodies : b.parse = "object" /\ b.id # NoId
                                /\ TextCheck(b.text) = "ok" }

NextRace ==
    \/ \E m \in Arriving(2) \cap {"POST"}, p \in RacePaths, h \in RaceHeaders :
          \/ sessions = EmptyMap /\ LoginStart(2, m, p, h)
          \/ ApiStart(2, m, p, h)
    \/ \E s \in At("login") : LoginBody(s, "admin", "secret")
    \/ \E s \in At("connecting") : Connected(s, TRUE)
    \/ \E s \in At("reading"), b \in RaceBodies : BodyRead(s, b)
    \/ \E s \in At("executing"), ok \in BOOLEAN : Executed(s, ok)
    \/ \E s \in At("closing") : Closed(s)
    \/ \E t \in BotTexts : BotAdd(t)
    \/ Observed

SpecRace == InitStore /\ [][NextRace]_vars

\* ------------------------------------------- src/server.js (Express)
\* The Express server keeps the same table through the same driver; its
\* sessions are express-session's store, keyed by the session id of the
\* cookie, and a session is stored once a login has set its user.

\* req.session.user: the stored session the cookie names, NoTok when the
\* request has a fresh, empty session.
sessionUser(h, sess) ==
    LET sid == parseCookies(h)
    IN  IF sid # NoTok /\ sid \in DOMAIN sess THEN sid ELSE NoTok

\* ensureAuth: next(), 401 JSON on an /api/ path, else redirect to the
\* login page.
ensureAuth(user, p) ==
    IF user # NoTok THEN "next"
    ELSE IF StartsWithApi(p) THEN "unauthorized"
    ELSE "redirect"

\* A path with a .. segment, which express.static refuses (403).
UpPath(p) == \E i \in 1 .. Len(p) : p[i] = ".."

\* express.static(__dirname) on a GET: the file it sends, index.html for a
\* directory, <<>> when no file is there (next()).  It never looks at the
\* session.
expressStatic(p) ==
    LET f == IF p = <<>> THEN PathJoin(DocRoot, <<"index.html">>)
             ELSE PathJoin(DocRoot, p)
    IN  IF f \in Files /\ ~UpPath(p) THEN f ELSE <<>>

\* The routes in the order app.get / app.post / app.use registered them.
ExpressRoute(m, p) ==
    IF m = "GET" /\ p = <<"login.html">> THEN "loginPage"
    ELSE IF m = "POST" /\ p = <<"login">> THEN "login"
    ELSE IF m = "GET" /\ p = <<"logout">> THEN "logout"
    ELSE IF m = "GET" /\ UpPath(p) THEN "forbidden"
    ELSE IF m = "GET" /\ expressStatic(p) # <<>> THEN "static"
    ELSE IF ApiRoute(m, p) # "notfound" THEN "api"
    ELSE "none"

\* The request as the session middleware hands it to the routes.
ExpressReq(m, p, h) ==
    [IdleSlot EXCEPT !.method = m, !.path = p, !.sid = parseCookies(h),
                     !.live = (parseCookies(h) \in DOMAIN sessions),
                     !.valid = (parseCookies(h) \in issued \ revoked),
                     !.user = sessionUser(h, sessions)]

\* GET /login.html, a file under __dirname (403 for a path that leaves it),
\* or no route at all (finalhandler: 404).
ExpressPage(cap, m, p, h) ==
    /\ Accepting(cap)
    /\ LET r  == ExpressReq(m, p, h)
           rt == ExpressRoute(m, p)
       IN  /\ rt \in {"loginPage", "static", "forbidden", "none"}
           /\ Answer(r, CASE rt = "loginPage" -> sendFile(PathJoin(DocRoot, <<"login.html">>))
                          [] rt = "static"    -> sendFile(expressStatic(p))
                          [] rt = "forbidden" -> [NoResp EXCEPT !.code = 403]
                          [] OTHER            -> [NoResp EXCEPT !.code = 404])

\* POST /login with the form express.urlencoded parsed: the user is put in
\* the request's session, which is stored under its id.
ExpressLogin(cap, m, p, h, u, pw) ==
    /\ Accepting(cap)
    /\ ExpressRoute(m, p) = "login"
    /\ LET r    == ExpressReq(m, p, h)
           form == [u |-> u, pw |-> pw]
       IN  IF LoginOk(u, pw, adminUser, adminPass)
           THEN \E sid \in (IF r.user # NoTok THEN {r.user} ELSE genSid) :
                  /\ sessions' = createSession(sessions, sid, adminUser, now)
                  /\ spent' = spent \cup {sid}
                  /\ issued' = issued \cup {sid}
                  /\ revoked' = revoked \ {sid}
                  /\ last' = Ev("resp", r, NoBody, form,
                                Redirect("/", [SessionCookie(sid) EXCEPT !.name = "connect.sid"]))
           ELSE /\ last' = Ev("resp", r, NoBody, form,
                              Redirect("/login.html?error=1", NoCookie))
                /\ UNCHANGED auth
    /\ UNCHANGED << cfg, now, store, hist, conns, slots >>

\* GET /logout: req.session.destroy, then the redirect.
ExpressLogout(cap, m, p, h) ==
    /\ Accepting(cap)
    /\ ExpressRoute(m, p) = "logout"
    /\ LET r == ExpressReq(m, p, h)
       IN  /\ sessions' = IF r.user # NoTok THEN Del(sessions, r.user) ELSE sessions
           /\ revoked' = IF r.user # NoTok THEN revoked \cup {r.user} ELSE revoked
           /\ last' = Ev("resp", r, NoBody, NoForm, Redirect("/login.html", NoCookie))
    /\ UNCHANGED << cfg, spent, issued, now, store, hist, conns, slots >>

\* An API route whose ensureAuth did not call next().
ExpressDenied(cap, m, p, h) ==
    /\ Accepting(cap)
    /\ ExpressRoute(m, p) = "api"
    /\ LET r == ExpressReq(m, p, h)
       IN  /\ ensureAuth(r.user, p) # "next"
           /\ Answer(r, IF ensureAuth(r.user, p) = "unauthorized"
                        THEN JsonError(401, "Unauthorized")
                        ELSE Redirect("/login.html", NoCookie))

\* What an API handler does with req.body before its try block: "throw"
\* (text.trim is not a function), "empty" (400) or "run".
ExpressBodyCheck(rt, b) ==
    IF rt \in {"add", "edit"} THEN
       (IF TextCheck(b.text) = "ok" THEN "run" ELSE TextCheck(b.text))
    ELSE "run"

\* A request body as express.json leaves it in req.body: an object.
ExpressBodies == { b \in Bodies : b.parse = "object" }

\* An API handler past ensureAuth, up to its first await: 400 for an empty
\* text, else await mysql.createConnection(dbConfig).  A throw before the
\* try block rejects the handler's promise, which nothing handles: the
\* process exits without an answer.
ExpressApi(cap, m, p, h, b) ==
    /\ Accepting(cap)
    /\ ExpressRoute(m, p) = "api"
    /\ LET r0 == ExpressReq(m, p, h)
           rt == ApiRoute(m, p)
           c  == ExpressBodyCheck(rt, b)
           r  == [r0 EXCEPT !.blank = (rt \in {"add", "edit"} /\ Blank(b)),
                            !.id = IF rt \in {"delete", "edit"} THEN b.id ELSE NoId,
                            !.text = IF rt \in {"add", "edit"} /\ c = "run"
                                     THEN b.text.s ELSE <<>>]
       IN  /\ ensureAuth(r0.user, p) = "next"
           /\ rt = "items" => b = [parse |-> "object", id |-> NoId, text |-> JUndef]
           /\ CASE c = "throw" ->
                     /\ Reboot
                     /\ last' = Ev("crash", r, b, NoForm, NoResp)
                [] c = "empty" ->
                     /\ last' = Ev("resp", r, b, NoForm, JsonError(400, "Empty text"))
                     /\ UNCHANGED << cfg, auth, now, store, hist, conns, slots >>
                [] OTHER ->
                     /\ Suspend(r, "connecting")
                     /\ UNCHANGED << cfg, auth, now, store, hist, conns >>

\* catch (err) { res.status(500).json({error: 'DB error'}) }: the handler is
\* over, whether or not it holds a connection.
ExpressCatch(s, r) ==
    /\ last' = Ev("resp", r, SentBody(r), NoForm, JsonError(500, "DB error"))
    /\ slots' = [slots EXCEPT ![s] = IdleSlot]

\* createConnection settled: rejected (catch) or resolved, and then execute
\* is called; an undefined bind parameter makes it throw at once (catch).
ExpressConnected(s, ok) ==
    /\ Ready
    /\ slots[s].pc = "connecting"
    /\ ok => conns < MaxConns
    /\ LET r0 == slots[s]
           r  == [r0 EXCEPT !.conn = TRUE]
           rt == ApiRoute(r0.method, r0.path)
       IN  IF ~ok
           THEN /\ ExpressCatch(s, r0)
                /\ UNCHANGED conns
           ELSE /\ conns' = createConnection(conns)
                /\ IF rt \in {"delete", "edit"} /\ r.id = NoId
                   THEN ExpressCatch(s, r)
                   ELSE /\ slots' = [slots EXCEPT ![s] = [r EXCEPT !.pc = "executing"]]
                        /\ last' = NoEvent
    /\ UNCHANGED << cfg, auth, now, store, hist >>

\* conn.execute settled: rejected (catch) or resolved with the statement
\* applied, and then await conn.end().
ExpressExecuted(s, ok) ==
    /\ Ready
    /\ slots[s].pc = "executing"
    /\ LET r0 == slots[s]
           rt == ApiRoute(r0.method, r0.path)
           r  == [r0 EXCEPT !.stmts = r0.stmts + 1, !.pc = "closing"]
       IN  IF ~ok
           THEN /\ ExpressCatch(s, r0)
                /\ UNCHANGED store
           ELSE /\ last' = NoEvent
                /\ CASE rt = "items" ->
                          /\ slots' = [slots EXCEPT ![s] = [r EXCEPT !.code = 200]]
                          /\ UNCHANGED store
                     [] rt = "add" ->
                          /\ nextId <= MaxId
                          /\ items' = Insert(items, nextId, Trim(r.text))
                          /\ nextId' = AutoIncrement(nextId)
                          /\ slots' = [slots EXCEPT ![s] = [r EXCEPT !.code = 200,
                                                                     !.id = nextId]]
                     [] rt = "delete" ->
                          /\ items' = Delete(items, r.id)
                          /\ UNCHANGED nextId
                          /\ slots' = [slots EXCEPT ![s] = [r EXCEPT !.code = 200]]
                     [] OTHER ->
                          /\ items' = Update(items, r.id, Trim(r.text))
                          /\ UNCHANGED nextId
                          /\ slots' = [slots EXCEPT ![s] = [r EXCEPT !.code =
                                          IF AffectedRows(items, r.id) = 0 THEN 404
                                          ELSE 200]]
    /\ UNCHANGED << cfg, auth, now, hist, conns >>

\* conn.end() resolved: the answer is written.
ExpressClosed(s) ==
    /\ Ready
    /\ slots[s].pc = "closing"
    /\ conns' = connEnd(conns)
    /\ slots' = [slots EXCEPT ![s] = IdleSlot]
    /\ LET r  == slots[s]
           rt == ApiRoute(r.method, r.path)
       IN  last' = Ev("resp", r, SentBody(r), NoForm,
                      CASE r.code = 404 -> JsonError(404, "Not found")
                        [] rt = "items" -> [NoResp EXCEPT !.code = 200, !.rows = Select(items)]
                        [] rt = "add"   -> [NoResp EXCEPT !.code = 200, !.id = r.id]
                        [] OTHER        -> [NoResp EXCEPT !.code = 200, !.success = TRUE])
    /\ UNCHANGED << cfg, auth, now, store, hist >>

\* The Express server: the admin pair configured, every method on its
\* routes with no cookie, an issued sid or a forged one, every body, and
\* the store accepting or refusing; one handler at a time.
ExpressPaths   == { <<>>, <<"index.html">>, <<"login.html">>, <<"login">>, <<"logout">>,
                    <<"api", "items">>, <<"api", "add">>, <<"api", "delete">>,
                    <<"api", "edit">>, <<"api", "nope">>,
                    <<"..", "etc", "passwd">> }

NextExpress ==
    \/ \E m \in Arriving(1), p \in ExpressPaths, h \in StoreHeaders :
          \/ ExpressPage(1, m, p, h)
          \/ \E pw \in StoreForms : ExpressLogin(1, m, p, h, "admin", pw)
          \/ ExpressLogout(1, m, p, h)
          \/ ExpressDenied(1, m, p, h)
          \/ \E b \in ExpressBodies : ExpressApi(1, m, p, h, b)
    \/ \E s \in At("connecting"), ok \in BOOLEAN : ExpressConnected(s, ok)
    \/ \E s \in At("executing"), ok \in BOOLEAN : ExpressExecuted(s, ok)
    \/ \E s \in At("closing") : ExpressClosed(s)
    \/ Observed

SpecExpress == InitStore /\ [][NextExpress]_vars

\* Logout against requests in flight: one login, then GET /logout, GET
\* /api/items and POST /api/add carrying the issued sid, up to two handlers
\* suspended at the same time and their awaits settling in every order.
RevokePaths  == { <<"login">>, <<"logout">>, <<"api", "items">>, <<"api", "add">> }
RevokeBodies == { b \in Bodies : b.parse = "object" /\ b.id = NoId
                                 /\ b.text \in {JUndef, JStr(<<"b">>)} }

NextRevoke ==
    \/ \E m \in Arriving(2) \cap {"GET", "POST"}, p \in RevokePaths, h \in RaceHeaders :
          \/ sessions = EmptyMap /\ revoked = {} /\ LoginStart(2, m, p, h)
          \/ Logout(2, m, p, h)
          \/ Unauthorized(2, m, p, h)
          \/ ApiStart(2, m, p, h)
    \/ \E s \in At("login") : LoginBody(s, "admin", "secret")
    \/ \E s \in At("connecting"), ok \in BOOLEAN : Connected(s, ok)
    \/ \E s \in At("reading"), b \in RevokeBodies : BodyRead(s, b)
    \/ \E s \in At("executing"), ok \in BOOLEAN : Executed(s, ok)
    \/ \E s \in At("closing") : Closed(s)
    \/ Observed

SpecRevoke == InitStore /\ [][NextRevoke]_vars

\* The client aborts while the handler awaits readBody: the request emits
\* neither 'data' nor 'end' again, the promise never settles and the
\* handler stays where it is, with the connection it holds.
Aborted(s) ==
    /\ Ready
    /\ slots[s].pc \in {"login", "reading"}
    /\ slots' = [slots EXCEPT ![s].pc = "aborted"]
    /\ last' = NoEvent
    /\ UNCHANGED << cfg, auth, now, store, hist, conns >>

\* Every request to its end: every method on the page, login, logout and
\* API paths with every Cookie header, bodies that arrive whole or are
\* aborted, the store accepting or refusing; one handler at a time.
LivePaths  == { <<>>, <<"login">>, <<"logout">>, <<"api", "items">>,
                <<"api", "add">>, <<"api", "nope">> }
LiveBodies == { b \in Bodies : b.id = NoId /\ b.text \in {JUndef, JStr(<<"b">>)} }

\* A promise that can settle, and the observation of a step.
Settle ==
    \/ \E s \in At("login"), pw \in StoreForms : LoginBody(s, "admin", pw)
    \/ \E s \in At("connecting"), ok \in BOOLEAN : Connected(s, ok)
    \/ \E s \in At("reading"), b \in LiveBodies : BodyRead(s, b)
    \/ \E s \in At("executing"), ok \in BOOLEAN : Executed(s, ok)
    \/ \E s \in At("closing") : Closed(s)
    \/ Observed

NextLive ==
    \/ \E m \in Arriving(1), p \in LivePaths, h \in CookieHeaders :
          \/ CookieThrows(1, m, p, h)
          \/ StaticGet(1, m, p, h)
          \/ LoginStart(1, m, p, h)
          \/ Logout(1, m, p, h)
          \/ Unauthorized(1, m, p, h)
          \/ ApiStart(1, m, p, h)
          \/ NoRoute(1, m, p, h)
    \/ \E s \in At("login") \cup At("reading") : Aborted(s)
    \/ Settle

\* The event loop runs the continuation of every promise that settles, the
\* driver settles every call it was given, and a body that is not aborted
\* arrives.
SpecLive == InitStore /\ [][NextLive]_vars /\ WF_vars(Settle)

\* -------------------------------------------------------------- claims
\* What the claims speak of, in terms of the observation.
Answered      == last.ev = "resp"
Is(m, p)      == last.method = m /\ last.path = p
ApiPathSeen   == Len(last.path) >= 2 /\ last.path[1] = "api"
Json401       == [NoResp EXCEPT !.code = 401, !.error = "Unauthorized"]
Json200Ok     == [NoResp EXCEPT !.code = 200, !.success = TRUE]
RowsSeen      == last.resp.rows

\* t is s without its leading and trailing whitespace.
IsTrimOf(t, s) ==
    /\ t = <<>> \/ (t[1] # SP /\ t[Len(t)] # SP)
    /\ \E i \in 0 .. Len(s) :
          /\ i + Len(t) <= Len(s)
          /\ \A k \in 1 .. Len(t) : s[i + k] = t[k]
          /\ \A k \in 1 .. Len(s) : (k <= i \/ k > i + Len(t)) => s[k] = SP

\* C1: every answer to a request on a path under /api/ whose sid cookie is
\* absent or no key of the registry is 401 {error: "Unauthorized"}, whatever
\* the method and the rest of the path; no connection was opened and no
\* statement executed for it, and the step leaves the table and the open
\* connections as they were.
C1_AnonymousApiAnswered401 ==
    [][ (last'.ev = "resp" /\ Len(last'.path) >= 2 /\ last'.path[1] = "api"
         /\ ~last'.live)
        => /\ last'.resp = Json401
           /\ last'.opened = 0
           /\ last'.stmts = 0
           /\ items' = items
           /\ nextId' = nextId
           /\ conns' = conns ]_vars

C1_Witness ==
    /\ Answered
    /\ Is("PUT", <<"api", "nope">>)
    /\ last.sid = MaxTokens + 1
    /\ last.resp = Json401
    /\ DOMAIN sessions # {}
    /\ DOMAIN items # {}

\* C2: the handler takes the sid a request carries for a session exactly
\* when that sid was issued by a login since the process started and no
\* logout carrying it has been handled since; a request on an API path is
\* answered 401 exactly when its sid is not such a one; the passing of time
\* changes nothing of this.
C2_AuthenticatedIffIssuedAndNotLoggedOut ==
    Answered =>
        /\ (last.user # NoTok) <=> last.valid
        /\ last.user # NoTok => last.user = last.sid
        /\ ApiPathSeen => ((last.resp.code = 401) <=> ~last.valid)

C2_Witness ==
    /\ Answered
    /\ Is("GET", <<"api", "items">>)
    /\ last.sid \in revoked
    /\ last.resp.code = 401
    /\ \E t \in DOMAIN sessions : sessions[t].created < now

\* C3: a connection is open only for an API handler that is past its
\* createConnection and not yet past its conn.end(), one connection each;
\* with no API handler in flight none is open.  This holds after every
\* answer: 200, 400, 404 and both 500s.
ApiInFlight == { s \in Slot : slots[s].pc \in {"connecting", "reading", "executing", "closing"} }

C3_ConnectionsClosed ==
    /\ conns = Cardinality({ s \in Slot : slots[s].pc \in {"reading", "executing", "closing"} })
    /\ ApiInFlight = {} => conns = 0
    /\ (Answered /\ last.opened = 1) =>
          \E s \in Slot : slots[s].pc = "closing" /\ slots[s].code = last.resp.code

C3_Witness ==
    /\ last.ev = "closed"
    /\ last.resp.code = 500
    /\ last.opened = 1
    /\ ApiInFlight = {}
    /\ conns = 0

\* C4: the answer to a POST /login whose username and password equal the
\* configured pair is 302 to "/" with Set-Cookie sid=<token>; HttpOnly;
\* Path=/; Max-Age=86400; SameSite=Lax, where <token> was no key of the
\* registry and the registry is now the old one plus <token> ->
\* {admin username, now}.
C4_LoginCreatesOneSession ==
    [][ (last'.ev = "resp" /\ last'.method = "POST" /\ last'.path = <<"login">>
         /\ last'.form.u = adminUser /\ last'.form.pw = adminPass)
        => LET t == last'.resp.cookie.value
           IN  /\ t \in Tokens
               /\ t \notin DOMAIN sessions
               /\ DOMAIN sessions' = DOMAIN sessions \cup {t}
               /\ \A k \in DOMAIN sessions : sessions'[k] = sessions[k]
               /\ sessions'[t] = [username |-> adminUser, created |-> now]
               /\ last'.resp =
                    [NoResp EXCEPT !.code = 302, !.loc = "/",
                       !.cookie = [name |-> "sid", value |-> t, httpOnly |-> TRUE,
                                   path |-> "/", maxAge |-> 86400,
                                   sameSite |-> "Lax"]] ]_vars

C4_Witness ==
    /\ Answered
    /\ Is("POST", <<"login">>)
    /\ adminUser = "admin"
    /\ last.form = [u |-> "admin", pw |-> "secret"]
    /\ last.resp.loc = "/"
    /\ Cardinality(DOMAIN sessions) = 2
    /\ now > 0

\* C5: a POST /login whose submitted username or password differs from the
\* configured pair, a field left out of the body counting as differing, is
\* answered 302 to /login.html?error=1 with no Set-Cookie and leaves the
\* registry as it was: a session is created only when both credentials
\* were submitted and are the configured ones.
C5_FailedLoginCreatesNoSession ==
    [][ (last'.ev = "resp" /\ last'.method = "POST" /\ last'.path = <<"login">>
         /\ ~(/\ last'.form.u # Undefined /\ last'.form.pw # Undefined
              /\ last'.form.u = adminUser /\ last'.form.pw = adminPass))
        => /\ last'.resp = [NoResp EXCEPT !.code = 302, !.loc = "/login.html?error=1"]
           /\ sessions' = sessions ]_vars

\* C6: an authenticated POST /api/add whose text is not blank and whose
\* store calls succeeded is answered 200 {id}; the id of a 200 was returned
\* by no earlier add, deleted items included; and the rows of a later GET
\* /api/items hold, for every added id not deleted or edited since, the
\* item {id, text} with text the added text without its surrounding
\* whitespace.
C6_AddReturnsFreshIdAndIsListed ==
    /\ [][ (last'.ev = "resp" /\ last'.method = "POST"
            /\ last'.path = <<"api", "add">> /\ last'.resp.code = 200)
           => /\ last'.resp.id \in Nat \ {0}
              /\ last'.resp.id \notin returned
              /\ last'.resp.id \notin DOMAIN items
              /\ last'.resp.id \notin dropped
              /\ last'.resp = [NoResp EXCEPT !.code = 200, !.id = last'.resp.id] ]_vars
    /\ [] ((Answered /\ Is("POST", <<"api", "add">>) /\ last.live /\ last.stmts = 1)
            => last.resp.code = 200)
    /\ [] ((Answered /\ Is("GET", <<"api", "items">>) /\ last.resp.code = 200)
            => \A id \in DOMAIN kept :
                  \E row \in RowsSeen : row.id = id /\ IsTrimOf(row.text, kept[id]))

C6_Witness ==
    /\ Answered
    /\ Is("GET", <<"api", "items">>)
    /\ last.resp.code = 200
    /\ removed # {}
    /\ \E id \in DOMAIN kept : kept[id] = <<SP, "a", SP>> /\ id \in returned
                               /\ [id |-> id, text |-> <<"a">>] \in RowsSeen

\* C7 as stated: once a POST /api/delete {id} was answered 200 {success:
\* true}, the rows of no later GET /api/items hold that id, whatever was
\* added, edited or deleted in between.
C7_AnyDeletedIdNeverListedAgain ==
    (Answered /\ Is("GET", <<"api", "items">>) /\ last.resp.code = 200)
        => { row.id : row \in RowsSeen } \cap removed = {}

\* C7: once a POST /api/delete {id} was answered 200 {success: true} for an
\* id the table had already given out (one below its AUTO_INCREMENT
\* counter), the rows of no later GET /api/items hold that id, whatever was
\* added, edited or deleted in between; a delete whose statement ran is
\* answered 200 {success: true} whether the id was in the table or not, and
\* when it was not the table is as before: a second delete(id) changes
\* nothing and is answered as the first.
C7_DeletedIdNeverListedAgain ==
    /\ [] ((Answered /\ Is("GET", <<"api", "items">>) /\ last.resp.code = 200)
            => { row.id : row \in RowsSeen } \cap dropped = {})
    /\ [] ((Answered /\ Is("POST", <<"api", "delete">>) /\ last.stmts = 1)
            => /\ last.resp = Json200Ok
               /\ last.body.id \in removed
               /\ last.body.id < nextId => last.body.id \in dropped)
    /\ [][ (last'.ev = "resp" /\ last'.method = "POST"
            /\ last'.path = <<"api", "delete">> /\ last'.stmts = 1)
           => /\ last'.body.id \notin DOMAIN items'
              /\ \A i \in DOMAIN items' : i \in DOMAIN items /\ items'[i] = items[i]
              /\ DOMAIN items' = DOMAIN items \ {last'.body.id}
              /\ (last'.body.id \notin DOMAIN items => items' = items) ]_vars

C7_Witness ==
    /\ Answered
    /\ Is("POST", <<"api", "delete">>)
    /\ last.resp = Json200Ok
    /\ last.body.id \in dropped
    /\ last.body.id \in returned
    /\ last.body.id < nextId
    /\ last.body.id \notin DOMAIN items
    /\ DOMAIN items # {}
    /\ nextId > MaxId

\* C8: an authenticated POST /api/edit {id, text} with a text that is not
\* blank, whose statement ran, is answered 404 {error: "Not found"} with the
\* table left as it was when no item had that id, and otherwise 200
\* {success: true} with that item's text replaced by the text without its
\* surrounding whitespace, its id and every other item as before.
C8_EditReplacesOneTextOr404 ==
    [][ (last'.ev = "resp" /\ last'.method = "POST"
         /\ last'.path = <<"api", "edit">> /\ last'.stmts = 1)
        => LET id == last'.body.id
           IN  IF id \notin DOMAIN items
               THEN /\ last'.resp = [NoResp EXCEPT !.code = 404, !.error = "Not found"]
                    /\ items' = items
               ELSE /\ last'.resp = Json200Ok
                    /\ DOMAIN items' = DOMAIN items
                    /\ IsTrimOf(items'[id], last'.body.text.s)
                    /\ \A i \in DOMAIN items \ {id} : items'[i] = items[i] ]_vars

C8_Witness ==
    /\ Answered
    /\ Is("POST", <<"api", "edit">>)
    /\ last.resp = Json200Ok
    /\ last.body.text = JStr(<<SP, "a", SP>>)
    /\ Cardinality(DOMAIN items) = 2
    /\ items[last.body.id] = <<"a">>
    /\ \E i \in DOMAIN items : items[i] = <<"b">>

\* C9: every answer to an authenticated POST /api/add or POST /api/edit
\* whose text is missing, empty or all whitespace is 400 {error: "Empty
\* text"}, and no INSERT or UPDATE was executed for it.
C9_BlankTextAnswered400 ==
    (Answered /\ last.live /\ last.blank
     /\ (Is("POST", <<"api", "add">>) \/ Is("POST", <<"api", "edit">>)))
    => /\ last.resp = [NoResp EXCEPT !.code = 400, !.error = "Empty text"]
       /\ last.stmts = 0

\* C10: GET / is answered 302 to /login.html when the request carries no
\* sid or one that is no key of the registry, and with the file index.html
\* when it carries a key of the registry; GET /login.html is answered with
\* the file login.html whatever the request carries.
C10_RootGatedLoginPageOpen ==
    (Answered /\ last.method = "GET") =>
        /\ (last.path = <<>> /\ ~last.live)
              => last.resp = [NoResp EXCEPT !.code = 302, !.loc = "/login.html"]
        /\ (last.path = <<>> /\ last.live)
              => last.resp = [NoResp EXCEPT !.code = 200,
                                            !.file = <<"app", "index.html">>]
        /\ last.path = <<"login.html">>
              => last.resp = [NoResp EXCEPT !.code = 200,
                                            !.file = <<"app", "login.html">>]

C10_Witness ==
    /\ Answered
    /\ Is("GET", <<>>)
    /\ last.live
    /\ last.resp.file = <<"app", "index.html">>
    /\ revoked # {}

\* The file f is the directory d or lies below it.
IsUnder(f, d) == Len(f) >= Len(d) /\ SubSeq(f, 1, Len(d)) = d
\* The request seen went to the handler's static branch.
StaticSeen ==
    /\ last.method = "GET"
    /\ ~ApiPathSeen
    /\ last.path \notin { <<"login">>, <<"logout">> }

\* C11: no answer to a GET that carries no registered sid holds the file
\* index.html: whatever the path that resolves to it, the answer is 302 to
\* /login.html.
C11_AnonymousNeverServedIndex ==
    (Answered /\ last.method = "GET" /\ ~last.live) =>
        /\ last.resp.file # <<"app", "index.html">>
        /\ PathJoin(DocRoot, last.path) = <<"app", "index.html">>
              => last.resp = [NoResp EXCEPT !.code = 302, !.loc = "/login.html"]

\* C12: the file in an answer of the static branch is the document root or
\* lies below it, also for paths with ".." segments, and a path that
\* resolves to no file is answered 404 {error: "Not found"}.
C12_StaticFilesInsideDocRoot ==
    (Answered /\ StaticSeen) =>
        /\ last.resp.file # <<>> => IsUnder(last.resp.file, DocRoot)
        /\ (last.path # <<>> /\ PathJoin(DocRoot, last.path) \notin Files)
              => last.resp = [NoResp EXCEPT !.code = 404, !.error = "Not found"]

\* The route table of the API, and the requests seen that no branch of the
\* handler is written for.
RouteTable ==
    { <<"GET", <<"api", "items">> >>, <<"POST", <<"api", "add">> >>,
      <<"POST", <<"api", "delete">> >>, <<"POST", <<"api", "edit">> >> }
ApiWriteSeen ==
    last.method = "POST"
    /\ last.path \in { <<"api", "add">>, <<"api", "delete">>, <<"api", "edit">> }
NoRouteSeen ==
    \/ last.method # "GET" /\ ~ApiPathSeen /\ ~Is("POST", <<"login">>)
    \/ Is("GET", <<"login">>)
    \/ ApiPathSeen /\ last.live /\ <<last.method, last.path>> \notin RouteTable

\* C13: every answer to a request that no route is written for (a non-GET
\* on a path outside /api/ other than POST /login, with or without a
\* session, or an authenticated request on an /api/ path with an unknown
\* name or another method than the table's) is 404 {error: "Not found"},
\* and no statement was executed for it.
C13_NoRouteAnswered404 ==
    (Answered /\ NoRouteSeen) =>
        /\ last.resp = [NoResp EXCEPT !.code = 404, !.error = "Not found"]
        /\ last.stmts = 0

\* C14 as stated: an authenticated POST /api/add, /api/delete or /api/edit
\* whose body is not valid JSON, or is valid JSON that is no object, is
\* answered 500, and no statement was executed for it.
C14_NonObjectBodyAnswered500 ==
    (Answered /\ last.live /\ ApiWriteSeen
     /\ last.body.parse \in {"malformed", "null", "scalar"})
    => last.resp.code = 500 /\ last.stmts = 0

\* C14: an authenticated POST /api/add, /api/delete or /api/edit whose body
\* is not valid JSON, or is the JSON value null, is answered 500 {error:
\* "Server error"}; no statement was executed for it, and the connection it
\* opened is the handler's to close next.  A request whose connection could
\* not be opened, whatever its body, is answered 500 {error: "DB connection
\* error"} with no statement executed.
C14_MalformedBodyAnswered500 ==
    /\ (Answered /\ last.live /\ ApiWriteSeen
        /\ last.body.parse \in {"malformed", "null"})
       => /\ last.resp = [NoResp EXCEPT !.code = 500, !.error = "Server error"]
          /\ last.stmts = 0
          /\ last.opened = 1
          /\ conns = Cardinality({ s \in Slot : slots[s].pc = "closing" })
          /\ \E s \in Slot : slots[s].pc = "closing" /\ slots[s].code = 500
    /\ (Answered /\ last.live /\ ApiPathSeen /\ last.opened = 0)
       => /\ last.resp = [NoResp EXCEPT !.code = 500, !.error = "DB connection error"]
          /\ last.stmts = 0

C14_Witness ==
    /\ Answered
    /\ Is("POST", <<"api", "delete">>)
    /\ last.body.parse = "null"
    /\ last.resp.code = 500
    /\ conns = 1
    /\ DOMAIN items # {}

\* C15: with two handlers of POST /api/edit and POST /api/delete in flight at
\* once, the table changes only in the step in which a handler's one
\* statement executes, and that step is the request run alone on the table
\* as it then is: a delete leaves the table without the id and is answered
\* 200; an edit of an id that is there replaces that text by the trimmed
\* text and is answered 200 (so of two edits the later statement's text
\* stays); an edit of an id that is not there - the delete's statement came
\* first - changes nothing and is answered 404.
C15_StatementsApplyInExecutionOrder ==
    [][ LET stmt == last'.ev = "resp" /\ last'.stmts = 1
            id   == last'.body.id
        IN  /\ (items' # items /\ ~stmt)
               => /\ last'.ev = "none"
                  /\ DOMAIN items' = DOMAIN items \cup {nextId}
                  /\ \A i \in DOMAIN items : items'[i] = items[i]
            /\ (stmt /\ last'.path = <<"api", "delete">>)
               => /\ DOMAIN items' = DOMAIN items \ {id}
                  /\ \A i \in DOMAIN items' : items'[i] = items[i]
                  /\ last'.resp = Json200Ok
            /\ (stmt /\ last'.path = <<"api", "edit">> /\ id \in DOMAIN items)
               => /\ DOMAIN items' = DOMAIN items
                  /\ IsTrimOf(items'[id], last'.body.text.s)
                  /\ \A i \in DOMAIN items \ {id} : items'[i] = items[i]
                  /\ last'.resp = Json200Ok
            /\ (stmt /\ last'.path = <<"api", "edit">> /\ id \notin DOMAIN items)
               => /\ items' = items
                  /\ last'.resp = [NoResp EXCEPT !.code = 404, !.error = "Not found"] ]_vars

\* An edit answered 404 for the only id ever given out, while the other
\* handler, answered 200, has not closed its connection yet.
C15_Witness ==
    /\ Answered
    /\ Is("POST", <<"api", "edit">>)
    /\ last.resp.code = 404
    /\ removed = {last.body.id}
    /\ dropped = {last.body.id}
    /\ nextId = 2
    /\ \E s \in Slot : slots[s].pc = "closing" /\ slots[s].code = 200
    /\ conns = 2

\* C16: in every state of the table, whatever the web API and the bot have
\* added, edited and deleted, no two rows have the same id, every id is one
\* the counter has given out, and every text is non-empty with no
\* whitespace at either end.
C16_ItemsDistinctAndTrimmed ==
    /\ \A r1, r2 \in Select(items) : r1.id = r2.id => r1 = r2
    /\ \A id \in DOMAIN items :
          /\ id \in 1 .. (nextId - 1)
          /\ items[id] # <<>>
          /\ items[id][1] # SP
          /\ items[id][Len(items[id])] # SP

C16_Witness ==
    /\ Cardinality(DOMAIN items) = 2
    /\ \E id \in DOMAIN items : id \in returned /\ id \notin DOMAIN kept
    /\ \E id \in DOMAIN items : id \notin returned
    /\ removed # {}
    /\ \E s \in Slot : slots[s].pc = "executing"

\* C17: every key of the registry was issued by a login and its entry holds
\* the configured admin username; while the process lives the registry
\* changes only in the answer to a successful POST /login, which adds one
\* entry, and in the answer to a GET /logout, which removes the entry of
\* the sid it carries: no other request changes it.
C17_RegistryChangedByLoginAndLogoutOnly ==
    /\ [] (\A t \in DOMAIN sessions :
              t \in issued /\ sessions[t].username = adminUser)
    /\ [][ (sessions' # sessions /\ last'.ev \notin {"restart", "crash"})
           => /\ last'.ev = "resp"
              /\ \/ /\ last'.method = "POST" /\ last'.path = <<"login">>
                    /\ last'.resp.loc = "/"
                    /\ \E t \in Tokens \ DOMAIN sessions :
                          /\ DOMAIN sessions' = DOMAIN sessions \cup {t}
                          /\ \A k \in DOMAIN sessions : sessions'[k] = sessions[k]
                 \/ /\ last'.method = "GET" /\ last'.path = <<"logout">>
                    /\ last'.sid \in DOMAIN sessions
                    /\ DOMAIN sessions' = DOMAIN sessions \ {last'.sid}
                    /\ \A k \in DOMAIN sessions' : sessions'[k] = sessions[k] ]_vars

C17_Witness ==
    /\ Answered
    /\ Is("POST", <<"api", "add">>)
    /\ last.resp.code = 400
    /\ last.live
    /\ DOMAIN sessions = {last.sid}
    /\ revoked # {}
    /\ adminUser = "admin"

\* C18: the answer to a GET /logout is 302 to /login.html with Set-Cookie
\* sid=; Path=/; Max-Age=0; SameSite=Lax; the step removes from the
\* registry the entry of the sid the request carries, if there is one, and
\* nothing else (with no sid, or one that is no key, nothing at all), and
\* leaves the table as it was.
C18_LogoutRemovesOwnSessionOnly ==
    [][ (last'.ev = "resp" /\ last'.method = "GET" /\ last'.path = <<"logout">>)
        => /\ last'.resp =
                [NoResp EXCEPT !.code = 302, !.loc = "/login.html",
                   !.cookie = [name |-> "sid", value |-> NoTok, httpOnly |-> FALSE,
                               path |-> "/", maxAge |-> 0, sameSite |-> "Lax"]]
           /\ DOMAIN sessions' = DOMAIN sessions \ {last'.sid}
           /\ \A k \in DOMAIN sessions' : sessions'[k] = sessions[k]
           /\ (last'.sid \notin DOMAIN sessions => sessions' = sessions)
           /\ items' = items
           /\ nextId' = nextId ]_vars

\* The same logout handled a second time, another session standing.
C18_Witness ==
    /\ Answered
    /\ Is("GET", <<"logout">>)
    /\ last.sid \in revoked
    /\ ~last.live
    /\ DOMAIN sessions # {}

\* C19: no step opens more than one connection and no request has more
\* than one connection or statement; an /api/ request whose connect or
\* statement failed is answered 500 with {error: "DB connection error"} or
\* {error: "Server error"} respectively, the step leaves the table as it
\* was, and the handler goes on to nothing but closing its connection.
C19_StoreFailureIsTerminal ==
    /\ [] (\A s \in Slot : slots[s].stmts <= 1)
    /\ [] ((Answered /\ ApiPathSeen) => last.opened <= 1 /\ last.stmts <= 1)
    /\ [][ conns' <= conns + 1 ]_vars
    /\ [][ (last'.ev = "resp" /\ last'.resp.code = 500)
           => /\ last'.resp = [NoResp EXCEPT !.code = 500, !.error =
                     IF last'.opened = 0 THEN "DB connection error"
                                         ELSE "Server error"]
              /\ last'.stmts = 0
              /\ items' = items
              /\ nextId' = nextId
              /\ \A s \in Slot : slots'[s].pc \in {"idle", "closing"} ]_vars

\* A statement that failed: the body was a good one.
C19_Witness ==
    /\ Answered
    /\ Is("POST", <<"api", "edit">>)
    /\ last.body.text = JStr(<<"b">>)
    /\ last.body.id \in DOMAIN items
    /\ last.resp.code = 500
    /\ last.opened = 1

\* C20: every answer to an authenticated POST /api/add or POST /api/edit
\* whose text is empty or all whitespace is 400, and no connection to the
\* store was attempted for it: the state of the store has no part in it.
C20_ValidationBeforeConnection ==
    (Answered /\ last.live /\ last.blank
     /\ (Is("POST", <<"api", "add">>) \/ Is("POST", <<"api", "edit">>)))
    => last.resp.code = 400 /\ last.opened = 0

\* C21: in the Express server a connection is open only for an API handler
\* that is past its createConnection and not yet past its conn.end(), one
\* connection each; once an API request has been answered, with 200, 404
\* or 500, no connection opened for it is still open.
C21_ExpressConnectionsClosed ==
    /\ conns = Cardinality({ s \in Slot : slots[s].pc \in {"executing", "closing"} })
    /\ (Answered /\ ApiPathSeen /\ ApiInFlight = {}) => conns = 0

\* C22: in the Express server every answer to GET / for a caller whose
\* session holds no user is the redirect 302 to /login.html, and the main
\* page is the answer to GET / only for a caller whose session holds a user.
C22_ExpressRootGated ==
    (Answered /\ Is("GET", <<>>)) =>
        /\ last.user = NoTok => last.resp = Redirect("/login.html", NoCookie)
        /\ last.resp.file = PathJoin(DocRoot, <<"index.html">>) => last.user # NoTok

\* C23: no store statement is executed for a request authenticated by a
\* token whose logout has been handled: every answer given after a
\* statement was executed is for a request whose session is not logged
\* out, however the logout interleaves with the requests in flight.
C23_NoStatementAfterLogout ==
    (Answered /\ ApiPathSeen /\ last.stmts > 0) => last.user \notin revoked

\* C24: every request that arrives is answered or its handler suspended,
\* never dropped without an answer; every suspended handler eventually
\* ends, and ends only having written its one response; every connection
\* opened for a request is eventually closed.
C24_EveryRequestAnsweredOnce ==
    /\ [] (last.ev # "crash")
    /\ \A s \in Slot : [] (slots[s].pc # "idle" => <> (slots[s].pc = "idle"))
    /\ \A s \in Slot : [] (slots[s].conn => <> (~slots[s].conn))
    /\ [][ \A s \in Slot :
             (slots[s].pc # "idle" /\ slots'[s].pc = "idle")
             => IF slots[s].pc = "closing"
                THEN slots[s].code # 0 /\ last'.ev = "closed"
                ELSE slots[s].code = 0 /\ last'.ev = "resp" ]_vars

=============================================================================
